---- MODULE Spec2Model ----
(***************************************************************************)
(* Mergington High School activities API (src/src/app.py): the relational  *)
(* store of Activity, Participant and ActivityParticipant rows, the seed   *)
(* routine run at startup, and the list / signup / unregister handlers.    *)
(*                                                                         *)
(* Spec     : requests handled one at a time, each handler one action.     *)
(* SpecConc : two threadpool workers whose handlers interleave statement   *)
(*            by statement against the shared store.                       *)
(***************************************************************************)
EXTENDS Integers, Sequences, FiniteSets, TLC

VARIABLES
    db,        \* the store: tables activity, participant, activity_participant
    started,   \* on_startup has run at least once (the app serves requests)
    req,       \* the request handled last                          (Spec)
    resp,      \* the response to it                                (Spec)
    wk         \* per worker: the handler's position and its locals (SpecConc)

vars == << db, started, req, resp, wk >>

----------------------------------------------------------------------------
(* The starter dataset, in the dict's insertion order.                      *)

INITIAL_ACTIVITIES ==
    << [ name |-> "Chess Club",
         description |-> "Learn strategies and compete in chess tournaments",
         schedule |-> "Fridays, 3:30 PM - 5:00 PM",
         max_participants |-> 12,
         participants |-> << "michael@mergington.edu", "daniel@mergington.edu" >> ],
       [ name |-> "Programming Class",
         description |-> "Learn programming fundamentals and build software projects",
         schedule |-> "Tuesdays and Thursdays, 3:30 PM - 4:30 PM",
         max_participants |-> 20,
         participants |-> << "emma@mergington.edu", "sophia@mergington.edu" >> ],
       [ name |-> "Gym Class",
         description |-> "Physical education and sports activities",
         schedule |-> "Mondays, Wednesdays, Fridays, 2:00 PM - 3:00 PM",
         max_participants |-> 30,
         participants |-> << "john@mergington.edu", "olivia@mergington.edu" >> ],
       [ name |-> "Soccer Team",
         description |-> "Join the school soccer team and compete in matches",
         schedule |-> "Tuesdays and Thursdays, 4:00 PM - 5:30 PM",
         max_participants |-> 22,
         participants |-> << "liam@mergington.edu", "noah@mergington.edu" >> ],
       [ name |-> "Basketball Team",
         description |-> "Practice and play basketball with the school team",
         schedule |-> "Wednesdays and Fridays, 3:30 PM - 5:00 PM",
         max_participants |-> 15,
         participants |-> << "ava@mergington.edu", "mia@mergington.edu" >> ],
       [ name |-> "Art Club",
         description |-> "Explore your creativity through painting and drawing",
         schedule |-> "Thursdays, 3:30 PM - 5:00 PM",
         max_participants |-> 15,
         participants |-> << "amelia@mergington.edu", "harper@mergington.edu" >> ],
       [ name |-> "Drama Club",
         description |-> "Act, direct, and produce plays and performances",
         schedule |-> "Mondays and Wednesdays, 4:00 PM - 5:30 PM",
         max_participants |-> 20,
         participants |-> << "ella@mergington.edu", "scarlett@mergington.edu" >> ],
       [ name |-> "Math Club",
         description |-> "Solve challenging problems and participate in math competitions",
         schedule |-> "Tuesdays, 3:30 PM - 4:30 PM",
         max_participants |-> 10,
         participants |-> << "james@mergington.edu", "benjamin@mergington.edu" >> ],
       [ name |-> "Debate Team",
         description |-> "Develop public speaking and argumentation skills",
         schedule |-> "Fridays, 4:00 PM - 5:30 PM",
         max_participants |-> 12,
         participants |-> << "charlotte@mergington.edu", "henry@mergington.edu" >> ] >>

(* What clients send: two seeded activity names and one that matches no    *)
(* row; two seeded emails and one that has no Participant row at first.    *)
ActivityNames == { "Chess Club", "Art Club", "Knitting Club" }
Emails == { "michael@mergington.edu", "amelia@mergington.edu", "new@mergington.edu" }

(* Earlier signups for Chess Club that a data.db left by a previous run    *)
(* of the process may hold (Backlog of them, enough to fill the club).     *)
Backlog == 10
BacklogActivity == "Chess Club"
BacklogEmails ==
    << "student01@mergington.edu", "student02@mergington.edu",
       "student03@mergington.edu", "student04@mergington.edu",
       "student05@mergington.edu", "student06@mergington.edu",
       "student07@mergington.edu", "student08@mergington.edu",
       "student09@mergington.edu", "student10@mergington.edu",
       "student11@mergington.edu", "student12@mergington.edu" >>

(* The workers of SpecConc and what their requests name.                   *)
Workers == { "w1", "w2" }
ConcNames == { "Chess Club", "Knitting Club" }
ConcEmails == { "michael@mergington.edu", "new@mergington.edu" }

----------------------------------------------------------------------------
(* Strings as the store compares them: ORDER BY name compares the bytes.   *)

Bytes(s) ==
    CASE s = "Chess Club" -> << 67, 104, 101, 115, 115, 32, 67, 108, 117, 98 >>
      [] s = "Programming Class" -> << 80, 114, 111, 103, 114, 97, 109, 109, 105, 110, 103, 32, 67, 108, 97, 115, 115 >>
      [] s = "Gym Class" -> << 71, 121, 109, 32, 67, 108, 97, 115, 115 >>
      [] s = "Soccer Team" -> << 83, 111, 99, 99, 101, 114, 32, 84, 101, 97, 109 >>
      [] s = "Basketball Team" -> << 66, 97, 115, 107, 101, 116, 98, 97, 108, 108, 32, 84, 101, 97, 109 >>
      [] s = "Art Club" -> << 65, 114, 116, 32, 67, 108, 117, 98 >>
      [] s = "Drama Club" -> << 68, 114, 97, 109, 97, 32, 67, 108, 117, 98 >>
      [] s = "Math Club" -> << 77, 97, 116, 104, 32, 67, 108, 117, 98 >>
      [] s = "Debate Team" -> << 68, 101, 98, 97, 116, 101, 32, 84, 101, 97, 109 >>
      [] s = "Knitting Club" -> << 75, 110, 105, 116, 116, 105, 110, 103, 32, 67, 108, 117, 98 >>

RECURSIVE SeqLess(_, _)
SeqLess(a, b) ==
    IF a = << >> THEN b # << >>
    ELSE IF b = << >> THEN FALSE
    ELSE IF Head(a) # Head(b) THEN Head(a) < Head(b)
    ELSE SeqLess(Tail(a), Tail(b))

NameLess(x, y) == SeqLess(Bytes(x), Bytes(y))

----------------------------------------------------------------------------
(* Tables.  A table is what the schema lets it be: activity and            *)
(* participant are row sequences in insertion order, activity_participant  *)
(* a sequence of (activity_id, participant_id) rows in key order; a pair   *)
(* held twice is a state the model can express.                            *)

EmptyStore ==
    [ activity |-> << >>, participant |-> << >>, activity_participant |-> << >> ]

None == [ id |-> 0 ]

MaxId(table) ==
    IF table = << >> THEN 0
    ELSE CHOOSE m \in { table[i].id : i \in DOMAIN table } :
             \A i \in DOMAIN table : table[i].id <= m

\* An integer primary key left None: the store assigns the next row id.
NextId(table) == MaxId(table) + 1

First(rows) == IF rows = << >> THEN None ELSE Head(rows)

Link(activity, participant) ==
    [ activity_id |-> activity.id, participant_id |-> participant.id ]

\* The link table's rows in primary-key order.
LinkLess(x, y) ==
    \/ x.activity_id < y.activity_id
    \/ x.activity_id = y.activity_id /\ x.participant_id < y.participant_id

ParticipantById(d, id) ==
    d.participant[CHOOSE i \in DOMAIN d.participant : d.participant[i].id = id]

\* activity.participants: the Participant rows joined through the link table,
\* one per link row.
Participants(d, activity) ==
    LET links == SelectSeq(d.activity_participant,
                           LAMBDA l : l.activity_id = activity.id)
    IN  [ i \in DOMAIN links |-> ParticipantById(d, links[i].participant_id) ]

Count(x, s) == Cardinality({ i \in DOMAIN s : s[i] = x })

EmailsOf(rows) == [ i \in DOMAIN rows |-> rows[i].email ]

----------------------------------------------------------------------------
(* Statements on the store.  A statement that changes the store returns    *)
(* ok = FALSE and the store as it was when a constraint of the schema      *)
(* rejects it (IntegrityError: the session's commit fails).                *)

\* select(Activity).where(Activity.name == activity_name) ... .first()
SelectActivity(d, activity_name) ==
    First(SelectSeq(d.activity, LAMBDA a : a.name = activity_name))

\* select(Participant).where(Participant.email == email) ... .first()
SelectParticipant(d, email) ==
    First(SelectSeq(d.participant, LAMBDA p : p.email = email))

\* session.add(Activity(...)); commit; refresh.  name is unique.
InsertActivity(d, data) ==
    LET row == [ id |-> NextId(d.activity),
                 name |-> data.name,
                 description |-> data.description,
                 schedule |-> data.schedule,
                 max_participants |-> data.max_participants ]
    IN  IF \E i \in DOMAIN d.activity : d.activity[i].name = data.name
        THEN [ ok |-> FALSE, db |-> d, row |-> None ]
        ELSE [ ok |-> TRUE,
               db |-> [ d EXCEPT !.activity = Append(@, row) ],
               row |-> row ]

\* session.add(Participant(email=email)); commit; refresh.  email is unique.
InsertParticipant(d, email) ==
    LET row == [ id |-> NextId(d.participant), email |-> email ]
    IN  IF \E i \in DOMAIN d.participant : d.participant[i].email = email
        THEN [ ok |-> FALSE, db |-> d, row |-> None ]
        ELSE [ ok |-> TRUE,
               db |-> [ d EXCEPT !.participant = Append(@, row) ],
               row |-> row ]

\* Variant: the link table has no key on the pair.
AppendParticipantNoKey(d, activity, participant) ==
    LET link == Link(activity, participant)
        rows == d.activity_participant
    IN  [ ok |-> TRUE,
          db |-> [ d EXCEPT !.activity_participant =
                     SelectSeq(rows, LAMBDA l : LinkLess(l, link))
                     \o << link >>
                     \o SelectSeq(rows, LAMBDA l : ~ LinkLess(l, link)) ] ]

\* activity.participants.append(participant); session.add(activity); commit:
\* one INSERT into activity_participant, whose primary key is the pair.
AppendParticipant(d, activity, participant) ==
    LET link == Link(activity, participant)
        rows == d.activity_participant
    IN  IF \E i \in DOMAIN rows : rows[i] = link
        THEN [ ok |-> FALSE, db |-> d ]
        ELSE [ ok |-> TRUE,
               db |-> [ d EXCEPT !.activity_participant =
                          SelectSeq(rows, LAMBDA l : LinkLess(l, link))
                          \o << link >>
                          \o SelectSeq(rows, LAMBDA l : ~ LinkLess(l, link)) ] ]

\* Variant: the DELETE names the participant and not the activity.
RemoveFromEveryActivity(d, activity, participant) ==
    LET link == Link(activity, participant)
        rows == d.activity_participant
    IN  IF ~ \E i \in DOMAIN rows : rows[i] = link
        THEN [ ok |-> FALSE, db |-> d ]
        ELSE [ ok |-> TRUE,
               db |-> [ d EXCEPT !.activity_participant =
                          SelectSeq(rows, LAMBDA l :
                                      l.participant_id # participant.id) ] ]

\* Variant: a participant left without any membership is deleted too.
RemoveParticipantAndOrphan(d, activity, participant) ==
    LET link == Link(activity, participant)
        rows == d.activity_participant
        left == SelectSeq(rows, LAMBDA l : l # link)
    IN  IF ~ \E i \in DOMAIN rows : rows[i] = link
        THEN [ ok |-> FALSE, db |-> d ]
        ELSE [ ok |-> TRUE,
               db |-> [ d EXCEPT
                          !.activity_participant = left,
                          !.participant =
                             IF \E i \in DOMAIN left :
                                    left[i].participant_id = participant.id
                             THEN @
                             ELSE SelectSeq(@, LAMBDA q : q # participant) ] ]

\* activity.participants.remove(participant); session.add(activity); commit:
\* one DELETE of the pair's row.  ok = FALSE when no row matched.
RemoveParticipant(d, activity, participant) ==
    LET link == Link(activity, participant)
        rows == d.activity_participant
    IN  IF ~ \E i \in DOMAIN rows : rows[i] = link
        THEN [ ok |-> FALSE, db |-> d ]
        ELSE [ ok |-> TRUE,
               db |-> [ d EXCEPT !.activity_participant =
                          SelectSeq(rows, LAMBDA l : l # link) ] ]

----------------------------------------------------------------------------
(* seed_initial_data                                                        *)

\* Variant: the guard is inverted.
no_existing_activity(d) == d.activity = << >>

\* session.exec(select(Activity.id)).first(), tested for truth
existing_activity(d) ==
    d.activity # << >> /\ Head(d.activity).id # 0

\* The inner loop: reuse the Participant with that email or create it, and
\* append it to activity.participants; the last line commits the appends.
\* A commit that fails raises out of the routine (ok = FALSE) and leaves
\* what was committed before it.
RECURSIVE SeedParticipants(_, _, _)
SeedParticipants(d, activity, emails) ==
    IF emails = << >> THEN [ ok |-> TRUE, db |-> d ]
    ELSE LET found   == SelectParticipant(d, Head(emails))
             created == IF found = None
                        THEN InsertParticipant(d, Head(emails))
                        ELSE [ ok |-> TRUE, db |-> d, row |-> found ]
         IN  IF ~ created.ok THEN [ ok |-> FALSE, db |-> created.db ]
             ELSE LET linked == AppendParticipant(created.db, activity, created.row)
                  IN  IF ~ linked.ok THEN linked
                      ELSE SeedParticipants(linked.db, activity, Tail(emails))

\* One round of the outer loop.
SeedActivity(d, data) ==
    LET added == InsertActivity(d, data)
    IN  IF ~ added.ok THEN [ ok |-> FALSE, db |-> added.db ]
        ELSE SeedParticipants(added.db, added.row, data.participants)

RECURSIVE SeedActivities(_, _)
SeedActivities(d, entries) ==
    IF entries = << >> THEN d
    ELSE LET seeded == SeedActivity(d, Head(entries))
         IN  IF ~ seeded.ok THEN seeded.db
             ELSE SeedActivities(seeded.db, Tail(entries))

seed_initial_data(d) ==
    IF existing_activity(d) THEN d ELSE SeedActivities(d, INITIAL_ACTIVITIES)

----------------------------------------------------------------------------
(* Responses                                                                *)

NoResponse ==
    [ status |-> 0, message |-> << >>, detail |-> "", activities |-> << >> ]

\* return {"message": f"..."}: the pieces of the formatted string, in order
Message(pieces) == [ NoResponse EXCEPT !.status = 200, !.message = pieces ]

HTTPException(status_code, detail) ==
    [ NoResponse EXCEPT !.status = status_code, !.detail = detail ]

\* An exception no handler catches
ServerError == [ NoResponse EXCEPT !.status = 500, !.detail = "Internal Server Error" ]

Listing(entries) == [ NoResponse EXCEPT !.status = 200, !.activities = entries ]

----------------------------------------------------------------------------
(* GET /activities                                                          *)

RECURSIVE InsertByName(_, _)
InsertByName(row, sorted) ==
    IF sorted = << >> THEN << row >>
    ELSE IF NameLess(row.name, Head(sorted).name)
         THEN << row >> \o sorted
         ELSE << Head(sorted) >> \o InsertByName(row, Tail(sorted))

RECURSIVE SortByName(_)
SortByName(rows) ==
    IF rows = << >> THEN << >>
    ELSE InsertByName(rows[Len(rows)], SortByName(SubSeq(rows, 1, Len(rows) - 1)))

\* Variant: no order_by, the rows come as stored.
OrderAsStored(rows) == rows

\* select(Activity).order_by(Activity.name) ... .all()
OrderByName(rows) == SortByName(rows)

activity_to_dict(d, activity) ==
    [ description |-> activity.description,
      schedule |-> activity.schedule,
      max_participants |-> activity.max_participants,
      participants |-> EmailsOf(Participants(d, activity)) ]

\* A dict keeps one entry per key, at the place the key was first put.
DictPut(dict, key, value) ==
    IF \E i \in DOMAIN dict : dict[i].key = key
    THEN [ i \in DOMAIN dict |->
             IF dict[i].key = key THEN [ key |-> key, value |-> value ] ELSE dict[i] ]
    ELSE Append(dict, [ key |-> key, value |-> value ])

RECURSIVE DictOf(_, _, _)
DictOf(d, rows, dict) ==
    IF rows = << >> THEN dict
    ELSE DictOf(d, Tail(rows),
                DictPut(dict, Head(rows).name, activity_to_dict(d, Head(rows))))

get_activities(d) ==
    [ db |-> d, resp |-> Listing(DictOf(d, OrderByName(d.activity), << >>)) ]

----------------------------------------------------------------------------
(* POST /activities/{activity_name}/signup                                  *)

\* Variant: the check also turns away a signup for a full activity.
AlreadySignedUpOrFull(d, activity, email) ==
    \/ \E i \in DOMAIN Participants(d, activity) :
           Participants(d, activity)[i].email = email
    \/ Len(Participants(d, activity)) >= activity.max_participants

\* any(participant.email == email for participant in activity.participants)
AlreadySignedUp(d, activity, email) ==
    \E i \in DOMAIN Participants(d, activity) :
        Participants(d, activity)[i].email = email

\* Variant: the duplicate check is missing.
SignupUnchecked(d, activity, activity_name, email) ==
    LET found   == SelectParticipant(d, email)
        created == IF found = None
                   THEN InsertParticipant(d, email)
                   ELSE [ ok |-> TRUE, db |-> d, row |-> found ]
        linked  == AppendParticipant(created.db, activity, created.row)
    IN  IF ~ created.ok THEN [ db |-> created.db, resp |-> ServerError ]
        ELSE IF ~ linked.ok THEN [ db |-> linked.db, resp |-> ServerError ]
        ELSE [ db |-> linked.db,
               resp |-> Message(<< "Signed up ", email, " for ", activity_name >>) ]

\* The handler once the activity is found.
SignupKnownActivity(d, activity, activity_name, email) ==
    IF AlreadySignedUp(d, activity, email)
    THEN [ db |-> d, resp |-> HTTPException(400, "Student is already signed up") ]
    ELSE LET found   == SelectParticipant(d, email)
             created == IF found = None
                        THEN InsertParticipant(d, email)
                        ELSE [ ok |-> TRUE, db |-> d, row |-> found ]
         IN  IF ~ created.ok
             THEN [ db |-> created.db, resp |-> ServerError ]
             ELSE LET linked == AppendParticipant(created.db, activity, created.row)
                  IN  IF ~ linked.ok
                      THEN [ db |-> linked.db, resp |-> ServerError ]
                      ELSE [ db |-> linked.db,
                             resp |-> Message(<< "Signed up ", email,
                                                 " for ", activity_name >>) ]

\* Variant: the participant is looked up or created before the activity is.
signup_participant_first(d, activity_name, email) ==
    LET found    == SelectParticipant(d, email)
        created  == IF found = None
                    THEN InsertParticipant(d, email)
                    ELSE [ ok |-> TRUE, db |-> d, row |-> found ]
        activity == SelectActivity(created.db, activity_name)
    IN  IF activity = None
        THEN [ db |-> created.db, resp |-> HTTPException(404, "Activity not found") ]
        ELSE SignupKnownActivity(created.db, activity, activity_name, email)

signup_for_activity(d, activity_name, email) ==
    LET activity == SelectActivity(d, activity_name)
    IN  IF activity = None
        THEN [ db |-> d, resp |-> HTTPException(404, "Activity not found") ]
        ELSE SignupKnownActivity(d, activity, activity_name, email)

----------------------------------------------------------------------------
(* DELETE /activities/{activity_name}/unregister                            *)

\* Variant: only a missing Participant row counts as not signed up.
NotSignedUpNoneOnly(d, activity, participant) == participant = None

\* participant is None or participant not in activity.participants
NotSignedUp(d, activity, participant) ==
    \/ participant = None
    \/ ~ \E i \in DOMAIN Participants(d, activity) :
             Participants(d, activity)[i] = participant

unregister_from_activity(d, activity_name, email) ==
    LET activity == SelectActivity(d, activity_name)
    IN  IF activity = None
        THEN [ db |-> d, resp |-> HTTPException(404, "Activity not found") ]
        ELSE LET participant == SelectParticipant(d, email)
             IN  IF NotSignedUp(d, activity, participant)
                 THEN [ db |-> d,
                        resp |-> HTTPException(400,
                                   "Student is not signed up for this activity") ]
                 ELSE LET removed == RemoveParticipant(d, activity, participant)
                      IN  IF ~ removed.ok
                          THEN [ db |-> removed.db, resp |-> ServerError ]
                          ELSE [ db |-> removed.db,
                                 resp |-> Message(<< "Unregistered ", email,
                                                     " from ", activity_name >>) ]

----------------------------------------------------------------------------
(* The process.  data.db outlives the process: at start the store is       *)
(* either fresh or the one an earlier run left, here a seeded store with   *)
(* Backlog further signups for BacklogActivity.                            *)

RECURSIVE SignupAll(_, _, _)
SignupAll(d, activity_name, emails) ==
    IF emails = << >> THEN d
    ELSE LET handled == signup_for_activity(d, activity_name, Head(emails))
         IN  IF handled.resp.status # 200 THEN handled.db
             ELSE SignupAll(handled.db, activity_name, Tail(emails))

BacklogStore ==
    SignupAll(seed_initial_data(EmptyStore), BacklogActivity,
              SubSeq(BacklogEmails, 1, Backlog))

NoRequest == [ op |-> "", activity_name |-> "", email |-> "" ]

Request(op, activity_name, email) ==
    [ op |-> op, activity_name |-> activity_name, email |-> email ]

Idle ==
    [ pc |-> "idle", request |-> NoRequest, activity |-> None,
      collection |-> { }, participant |-> None, resp |-> NoResponse ]

Init ==
    /\ db \in { EmptyStore, BacklogStore }
    /\ started = FALSE
    /\ req = NoRequest
    /\ resp = NoResponse
    /\ wk = [ w \in Workers |-> Idle ]

\* on_startup: create_db_and_tables(); seed_initial_data().  A restart of
\* the process runs it again on the store the last run left.
Startup ==
    /\ db' = seed_initial_data(db)
    /\ started' = TRUE
    /\ req' = Request("startup", "", "")
    /\ resp' = NoResponse
    /\ UNCHANGED wk

ListActivities ==
    /\ started
    /\ db' = get_activities(db).db
    /\ resp' = get_activities(db).resp
    /\ req' = Request("list", "", "")
    /\ UNCHANGED << started, wk >>

Signup(activity_name, email) ==
    /\ started
    /\ db' = signup_for_activity(db, activity_name, email).db
    /\ resp' = signup_for_activity(db, activity_name, email).resp
    /\ req' = Request("signup", activity_name, email)
    /\ UNCHANGED << started, wk >>

Unregister(activity_name, email) ==
    /\ started
    /\ db' = unregister_from_activity(db, activity_name, email).db
    /\ resp' = unregister_from_activity(db, activity_name, email).resp
    /\ req' = Request("unregister", activity_name, email)
    /\ UNCHANGED << started, wk >>

Next ==
    \/ Startup
    \/ ListActivities
    \/ \E n \in ActivityNames, e \in Emails : Signup(n, e)
    \/ \E n \in ActivityNames, e \in Emails : Unregister(n, e)

Spec == Init /\ [][Next]_vars

----------------------------------------------------------------------------
(* The handlers statement by statement.  The endpoints are plain def       *)
(* functions, which the framework runs on threadpool workers, each with    *)
(* its own Session on the shared store; every statement of a handler sees  *)
(* what the other workers have committed by then.                          *)

Busy(w) == wk[w].pc \notin { "idle", "done" }

Finish(w, response) ==
    wk' = [ wk EXCEPT ![w].pc = "done", ![w].resp = response,
                      ![w].collection = { } ]

Begin(w, op, activity_name, email) ==
    /\ ~ Busy(w)
    /\ wk' = [ wk EXCEPT ![w] =
                 [ Idle EXCEPT !.pc = IF op = "signup" THEN "s_activity"
                                      ELSE "u_activity",
                               !.request = Request(op, activity_name, email) ] ]
    /\ UNCHANGED << db, started, req, resp >>

\* get_activities, whose statements only read
ListStep(w) ==
    /\ ~ Busy(w)
    /\ wk' = [ wk EXCEPT ![w] =
                 [ Idle EXCEPT !.pc = "done",
                               !.request = Request("list", "", ""),
                               !.resp = get_activities(db).resp ] ]
    /\ UNCHANGED << db, started, req, resp >>

\* signup_for_activity: select the activity, or 404
SignupSelectActivity(w) ==
    /\ wk[w].pc = "s_activity"
    /\ LET activity == SelectActivity(db, wk[w].request.activity_name)
       IN  IF activity = None
           THEN Finish(w, HTTPException(404, "Activity not found"))
           ELSE wk' = [ wk EXCEPT ![w].pc = "s_check", ![w].activity = activity ]
    /\ UNCHANGED << db, started, req, resp >>

\* The ids of the rows the session holds as activity.participants once the
\* collection is loaded.
Loaded(d, activity) ==
    { Participants(d, activity)[i].id : i \in DOMAIN Participants(d, activity) }

\* load activity.participants and look for the email, or 400
SignupCheck(w) ==
    /\ wk[w].pc = "s_check"
    /\ IF AlreadySignedUp(db, wk[w].activity, wk[w].request.email)
       THEN Finish(w, HTTPException(400, "Student is already signed up"))
       ELSE wk' = [ wk EXCEPT ![w].pc = "s_participant",
                             ![w].collection = Loaded(db, wk[w].activity) ]
    /\ UNCHANGED << db, started, req, resp >>

\* select the participant
SignupSelectParticipant(w) ==
    /\ wk[w].pc = "s_participant"
    /\ LET found == SelectParticipant(db, wk[w].request.email)
       IN  wk' = [ wk EXCEPT ![w].participant = found,
                             ![w].pc = IF found = None THEN "s_insert" ELSE "s_append" ]
    /\ UNCHANGED << db, started, req, resp >>

\* participant is None: add it and commit.  The commit expires what the
\* session has loaded.
SignupInsertParticipant(w) ==
    /\ wk[w].pc = "s_insert"
    /\ LET created == InsertParticipant(db, wk[w].request.email)
       IN  /\ db' = created.db
           /\ IF ~ created.ok
              THEN Finish(w, ServerError)
              ELSE wk' = [ wk EXCEPT ![w].participant = created.row,
                                    ![w].collection = { },
                                    ![w].pc = "s_reload" ]
    /\ UNCHANGED << started, req, resp >>

\* activity.participants, read again after that commit, is loaded anew
SignupReload(w) ==
    /\ wk[w].pc = "s_reload"
    /\ wk' = [ wk EXCEPT ![w].collection = Loaded(db, wk[w].activity),
                         ![w].pc = "s_append" ]
    /\ UNCHANGED << db, started, req, resp >>

\* append to activity.participants and commit.  The commit inserts the link
\* row; for a participant the loaded collection already holds, the session
\* decides whether it has a row to insert, and the store keeps its rows
\* either way.
SignupAppend(w) ==
    /\ wk[w].pc = "s_append"
    /\ LET linked == AppendParticipant(db, wk[w].activity, wk[w].participant)
           done   == Message(<< "Signed up ", wk[w].request.email,
                                " for ", wk[w].request.activity_name >>)
       IN  IF wk[w].participant.id \in wk[w].collection
           THEN /\ db' = db
                /\ \E response \in { done, ServerError } : Finish(w, response)
           ELSE /\ db' = linked.db
                /\ IF linked.ok THEN Finish(w, done) ELSE Finish(w, ServerError)
    /\ UNCHANGED << started, req, resp >>

\* unregister_from_activity: select the activity, or 404
UnregisterSelectActivity(w) ==
    /\ wk[w].pc = "u_activity"
    /\ LET activity == SelectActivity(db, wk[w].request.activity_name)
       IN  IF activity = None
           THEN Finish(w, HTTPException(404, "Activity not found"))
           ELSE wk' = [ wk EXCEPT ![w].pc = "u_participant", ![w].activity = activity ]
    /\ UNCHANGED << db, started, req, resp >>

\* select the participant
UnregisterSelectParticipant(w) ==
    /\ wk[w].pc = "u_participant"
    /\ wk' = [ wk EXCEPT ![w].participant = SelectParticipant(db, wk[w].request.email),
                         ![w].pc = "u_check" ]
    /\ UNCHANGED << db, started, req, resp >>

\* no participant, or not in activity.participants: 400
UnregisterCheck(w) ==
    /\ wk[w].pc = "u_check"
    /\ IF NotSignedUp(db, wk[w].activity, wk[w].participant)
       THEN Finish(w, HTTPException(400, "Student is not signed up for this activity"))
       ELSE wk' = [ wk EXCEPT ![w].pc = "u_remove" ]
    /\ UNCHANGED << db, started, req, resp >>

\* remove from activity.participants and commit.  When another worker has
\* deleted the row meanwhile the DELETE matches nothing: the driver decides
\* whether the session notices (StaleDataError) or not.
UnregisterRemove(w) ==
    /\ wk[w].pc = "u_remove"
    /\ LET removed == RemoveParticipant(db, wk[w].activity, wk[w].participant)
           done    == Message(<< "Unregistered ", wk[w].request.email,
                                 " from ", wk[w].request.activity_name >>)
       IN  /\ db' = removed.db
           /\ IF removed.ok
              THEN Finish(w, done)
              ELSE \E response \in { ServerError, done } : Finish(w, response)
    /\ UNCHANGED << started, req, resp >>

\* The app is up: on_startup has seeded the fresh store.
InitConc ==
    /\ db = seed_initial_data(EmptyStore)
    /\ started = TRUE
    /\ req = NoRequest
    /\ resp = NoResponse
    /\ wk = [ w \in Workers |-> Idle ]

NextConc ==
    \E w \in Workers :
        \/ \E n \in ConcNames, e \in ConcEmails : Begin(w, "signup", n, e)
        \/ \E n \in ConcNames, e \in ConcEmails : Begin(w, "unregister", n, e)
        \/ ListStep(w)
        \/ SignupSelectActivity(w)
        \/ SignupCheck(w)
        \/ SignupSelectParticipant(w)
        \/ SignupInsertParticipant(w)
        \/ SignupReload(w)
        \/ SignupAppend(w)
        \/ UnregisterSelectActivity(w)
        \/ UnregisterSelectParticipant(w)
        \/ UnregisterCheck(w)
        \/ UnregisterRemove(w)

SpecConc == InitConc /\ [][NextConc]_vars

----------------------------------------------------------------------------
(* What the properties below speak of.                                      *)

HasActivity(d, activity_name) ==
    \E i \in DOMAIN d.activity : d.activity[i].name = activity_name

HasParticipant(d, email) ==
    \E i \in DOMAIN d.participant : d.participant[i].email = email

\* The number of Membership rows that link the activity of that name with
\* the participant of that email.
Memberships(d, activity_name, email) ==
    LET activity_ids    == { d.activity[a].id :
                               a \in { i \in DOMAIN d.activity :
                                         d.activity[i].name = activity_name } }
        participant_ids == { d.participant[q].id :
                               q \in { i \in DOMAIN d.participant :
                                         d.participant[i].email = email } }
    IN  Cardinality({ i \in DOMAIN d.activity_participant :
                        /\ d.activity_participant[i].activity_id \in activity_ids
                        /\ d.activity_participant[i].participant_id
                              \in participant_ids })

\* The Membership rows other than those of that pair.
OtherMemberships(d, activity_name, email) ==
    LET activity    == SelectActivity(d, activity_name)
        participant == SelectParticipant(d, email)
    IN  SelectSeq(d.activity_participant,
                  LAMBDA l : ~ ( /\ l.activity_id = activity.id
                                 /\ l.participant_id = participant.id ))

NamesIn(d) == { d.activity[i].name : i \in DOMAIN d.activity }
EmailsIn(d) == { d.participant[i].email : i \in DOMAIN d.participant }

\* The activity's participant list as GET /activities shows it.
ListedParticipants(d, activity_name) ==
    activity_to_dict(d, SelectActivity(d, activity_name)).participants

SeedEmails ==
    UNION { { INITIAL_ACTIVITIES[i].participants[j] :
                j \in DOMAIN INITIAL_ACTIVITIES[i].participants } :
            i \in DOMAIN INITIAL_ACTIVITIES }

----------------------------------------------------------------------------
(* C1.  A signup for an existing activity by an email that holds no        *)
(* Membership with it succeeds with 200 and "Signed up E for A", and the   *)
(* activity's participant list then holds the email exactly once; neither  *)
(* the number of participants against max_participants nor the presence of *)
(* a Participant row for the email matters.                                *)
SignupOfNewMemberSucceeds ==
    [][ \A n \in ActivityNames, e \in Emails :
          ( /\ req' = Request("signup", n, e)
            /\ HasActivity(db, n)
            /\ Memberships(db, n, e) = 0 )
          => /\ resp' = Message(<< "Signed up ", e, " for ", n >>)
             /\ Memberships(db', n, e) = 1
             /\ Count(e, ListedParticipants(db', n)) = 1 ]_vars

\* A signup has succeeded for an activity that was already full.
SignupPastCapacityDone ==
    /\ req.op = "signup"
    /\ resp.status = 200
    /\ Count(req.email, ListedParticipants(db, req.activity_name)) = 1
    /\ Len(ListedParticipants(db, req.activity_name))
         > SelectActivity(db, req.activity_name).max_participants

(* C2.  A signup by an email that already holds a Membership with the      *)
(* activity fails with 400 "Student is already signed up" and leaves the   *)
(* store as it was: the participant list holds the email exactly once.     *)
DuplicateSignupRejected ==
    [][ \A n \in ActivityNames, e \in Emails :
          ( /\ req' = Request("signup", n, e)
            /\ Memberships(db, n, e) >= 1 )
          => /\ resp' = HTTPException(400, "Student is already signed up")
             /\ db' = db
             /\ Count(e, ListedParticipants(db', n)) = 1 ]_vars

\* A second signup of the same pair has just been turned away.
DuplicateSignupDone ==
    /\ req.op = "signup"
    /\ resp.status = 400
    /\ Memberships(db, req.activity_name, req.email) = 1

(* C3.  A signup that names no Activity row fails with 404 "Activity not   *)
(* found" and changes no table, also for an email without Participant row *)
(* (no Participant is created before the activity is looked up).           *)
SignupUnknownActivityNotFound ==
    [][ \A n \in ActivityNames, e \in Emails :
          ( /\ req' = Request("signup", n, e)
            /\ ~ HasActivity(db, n) )
          => /\ resp' = HTTPException(404, "Activity not found")
             /\ db' = db ]_vars

\* A signup for an unknown activity by an email without Participant row
\* has been answered.
SignupUnknownActivityDone ==
    /\ req.op = "signup"
    /\ resp.status = 404
    /\ db.activity # << >>
    /\ ~ HasActivity(db, req.activity_name)
    /\ ~ HasParticipant(db, req.email)

(* C4.  An unregister of an email that holds a Membership with the         *)
(* activity succeeds with 200 and "Unregistered E from A" and removes that *)
(* one Membership only: every other Membership, and the other tables, stay *)
(* as they were, and the same unregister right after it fails with 400.    *)
UnregisterRemovesThatMembership ==
    [][ \A n \in ActivityNames, e \in Emails :
          ( /\ req' = Request("unregister", n, e)
            /\ Memberships(db, n, e) >= 1 )
          => /\ resp' = Message(<< "Unregistered ", e, " from ", n >>)
             /\ Memberships(db', n, e) = 0
             /\ Count(e, ListedParticipants(db', n)) = 0
             /\ Len(db'.activity_participant) = Len(db.activity_participant) - 1
             /\ db'.activity_participant = OtherMemberships(db, n, e)
             /\ db'.activity = db.activity
             /\ db'.participant = db.participant
             /\ unregister_from_activity(db', n, e).resp.status = 400
             /\ unregister_from_activity(db', n, e).db = db' ]_vars

\* An unregister has succeeded for an email that is still a member of
\* another activity, from an activity that still has other members.
UnregisterDone ==
    /\ req.op = "unregister"
    /\ resp.status = 200
    /\ Memberships(db, req.activity_name, req.email) = 0
    /\ ListedParticipants(db, req.activity_name) # << >>
    /\ \E n2 \in NamesIn(db) : Memberships(db, n2, req.email) = 1

(* C5.  An unregister fails with 404 "Activity not found" when the name    *)
(* matches no Activity, whatever the email, and with 400 "Student is not   *)
(* signed up for this activity" when the activity exists and the email has *)
(* no Participant row or has one without a Membership with this activity;  *)
(* a failing unregister leaves the store as it was.                        *)
UnregisterFailures ==
    [][ \A n \in ActivityNames, e \in Emails :
          req' = Request("unregister", n, e)
          => /\ ~ HasActivity(db, n)
                => /\ resp' = HTTPException(404, "Activity not found")
                   /\ db' = db
             /\ ( HasActivity(db, n) /\ Memberships(db, n, e) = 0 )
                => /\ resp' = HTTPException(400,
                                 "Student is not signed up for this activity")
                   /\ db' = db
             /\ resp'.status # 200 => db' = db ]_vars

\* An unregister has been refused for a participant who is a member of
\* another activity only.
UnregisterOfNonMemberDone ==
    /\ req.op = "unregister"
    /\ resp.status = 400
    /\ HasParticipant(db, req.email)
    /\ Memberships(db, req.activity_name, req.email) = 0
    /\ \E n2 \in NamesIn(db) : Memberships(db, n2, req.email) = 1

(* C6.  GET /activities always answers 200 and changes nothing; its        *)
(* mapping has one entry per Activity row, in ascending order of name,     *)
(* each with the row's fields and, as participants, exactly the emails     *)
(* that hold a Membership with it; with no Activity it is empty.           *)
ListsStore(entries, d) ==
    /\ Len(entries) = Len(d.activity)
    /\ \A i \in DOMAIN d.activity :
          \E k \in DOMAIN entries :
             /\ entries[k].key = d.activity[i].name
             /\ entries[k].value.description = d.activity[i].description
             /\ entries[k].value.schedule = d.activity[i].schedule
             /\ entries[k].value.max_participants = d.activity[i].max_participants
             /\ \A e \in EmailsIn(d) :
                   Count(e, entries[k].value.participants)
                     = Memberships(d, d.activity[i].name, e)
             /\ \A j \in DOMAIN entries[k].value.participants :
                   entries[k].value.participants[j] \in EmailsIn(d)
    /\ \A k1, k2 \in DOMAIN entries :
          k1 < k2 => SeqLess(Bytes(entries[k1].key), Bytes(entries[k2].key))

ListingShowsStore ==
    /\ [] ( /\ get_activities(db).resp.status = 200
            /\ ListsStore(get_activities(db).resp.activities, db)
            /\ db.activity = << >> => get_activities(db).resp.activities = << >> )
    /\ [][ req' = Request("list", "", "")
           => /\ db' = db
              /\ resp'.status = 200
              /\ ListsStore(resp'.activities, db') ]_vars

\* The listing has been served from a store that signups have changed.
ListingDone ==
    /\ req.op = "list"
    /\ resp.status = 200
    /\ Len(resp.activities) = Len(INITIAL_ACTIVITIES)
    /\ \E k \in DOMAIN resp.activities :
          Count("new@mergington.edu", resp.activities[k].value.participants) = 1

(* C7.  No (activity, participant) pair is held twice by the Membership   *)
(* table, so that no participant list shows an email twice: in every      *)
(* state signups, unregisters and listings can lead to, run one after the *)
(* other or interleaved.                                                   *)
MembershipPairsUnique ==
    /\ \A i, j \in DOMAIN db.activity_participant :
          db.activity_participant[i] = db.activity_participant[j] => i = j
    /\ \A n \in NamesIn(db), e \in EmailsIn(db) : Memberships(db, n, e) <= 1

\* Two workers have handled a signup for the same pair: one signed the
\* email up, the other found it signed up.
SignupTwiceDone ==
    \E w1, w2 \in Workers :
        /\ wk[w1].pc = "done" /\ wk[w2].pc = "done"
        /\ wk[w1].request = Request("signup", "Chess Club", "new@mergington.edu")
        /\ wk[w2].request = wk[w1].request
        /\ wk[w1].resp.status = 200
        /\ wk[w2].resp.status = 400
        /\ Memberships(db, "Chess Club", "new@mergington.edu") = 1

(* C8.  Two signups for the same pair may both pass the existence check    *)
(* before either inserts.  As the specification has it, no key stops the   *)
(* later insert, and the Membership table then holds the pair twice.       *)
RaceAdmitsDuplicate ==
    [][ \A w \in Workers :
          ( /\ wk[w].pc = "s_append"
            /\ wk'[w].pc = "done"
            /\ Memberships(db, wk[w].request.activity_name, wk[w].request.email) >= 1 )
          => Memberships(db', wk[w].request.activity_name, wk[w].request.email) = 2
      ]_vars

(* C8, as the code has it.  The later request adds no row: the primary key *)
(* of activity_participant rejects its INSERT and it ends in a 500, or its *)
(* session, holding the pair in a collection loaded anew, has nothing to   *)
(* insert; the table never holds the pair twice.                           *)
RaceKeepsPairOnce ==
    [][ \A w \in Workers :
          ( /\ wk[w].pc = "s_append"
            /\ wk'[w].pc = "done" )
          => LET n == wk[w].request.activity_name
                 e == wk[w].request.email
             IN  /\ Memberships(db', n, e) <= 1
                 /\ Memberships(db, n, e) >= 1
                    => /\ db' = db
                       /\ wk[w].participant.id \notin wk[w].collection
                          => wk'[w].resp = ServerError
                 /\ ( /\ Memberships(db, n, e) = 0
                      /\ wk[w].participant.id \notin wk[w].collection )
                    => /\ Memberships(db', n, e) = 1
                       /\ wk'[w].resp = Message(<< "Signed up ", e, " for ", n >>)
      ]_vars

\* Both workers passed the check for the same pair; one inserted, and the
\* other's insert was rejected.
RaceDone ==
    \E w1, w2 \in Workers :
        /\ wk[w1].pc = "done" /\ wk[w2].pc = "done"
        /\ wk[w1].request.op = "signup"
        /\ wk[w2].request = wk[w1].request
        /\ wk[w1].resp.status = 200
        /\ wk[w2].resp = ServerError
        /\ Memberships(db, wk[w1].request.activity_name, wk[w1].request.email) = 1

(* C9.  Participant rows are only added, one per email: a signup adds the  *)
(* row when the email has none and the signup goes through, and otherwise  *)
(* leaves the table alone; an unregister deletes no Participant row, not   *)
(* even with the participant's last Membership; no request changes the     *)
(* Activity table.                                                         *)
ParticipantsOnlyGrow ==
    [][ /\ Len(db'.participant) >= Len(db.participant)
        /\ \A i \in DOMAIN db.participant : db'.participant[i] = db.participant[i]
        /\ \A i, j \in DOMAIN db'.participant :
              db'.participant[i].email = db'.participant[j].email => i = j
        /\ \A n \in ActivityNames, e \in Emails :
              req' = Request("signup", n, e)
              => IF HasParticipant(db, e) \/ ~ HasActivity(db, n)
                 THEN db'.participant = db.participant
                 ELSE /\ Len(db'.participant) = Len(db.participant) + 1
                      /\ db'.participant[Len(db'.participant)].email = e
        /\ req'.op = "unregister" => db'.participant = db.participant
        /\ req'.op \in { "signup", "unregister", "list" }
              => db'.activity = db.activity ]_vars

\* An unregister has removed the last Membership of a participant, whose
\* row is still there.
LastMembershipRemovedDone ==
    /\ req.op = "unregister"
    /\ resp.status = 200
    /\ HasParticipant(db, req.email)
    /\ \A n \in NamesIn(db) : Memberships(db, n, req.email) = 0

(* C10.  Seeding is guarded by the Activity table being empty: on the      *)
(* empty store it creates every starter activity with exactly its listed   *)
(* emails as members and one Participant row per distinct email; on a      *)
(* store that holds an Activity it changes nothing, so a seed membership   *)
(* that was unregistered is not added again.                               *)
Seeded(d) ==
    /\ Len(d.activity) = Len(INITIAL_ACTIVITIES)
    /\ \A i \in DOMAIN INITIAL_ACTIVITIES :
          LET data == INITIAL_ACTIVITIES[i]
          IN  /\ Cardinality({ a \in DOMAIN d.activity :
                                  d.activity[a].name = data.name }) = 1
              /\ SelectActivity(d, data.name).description = data.description
              /\ SelectActivity(d, data.name).schedule = data.schedule
              /\ SelectActivity(d, data.name).max_participants
                    = data.max_participants
              /\ \A e \in SeedEmails :
                    Memberships(d, data.name, e) = Count(e, data.participants)
              /\ Len(ListedParticipants(d, data.name)) = Len(data.participants)
    /\ Len(d.participant) = Cardinality(SeedEmails)
    /\ EmailsIn(d) = SeedEmails

SeedingGuardedByEmptiness ==
    [][ req'.op = "startup"
        => /\ db.activity = << >> => Seeded(db')
           /\ db.activity # << >> => db' = db ]_vars

\* The process has restarted on a store from which a seed member had been
\* unregistered, and the member is still absent.
RestartAfterUnregisterDone ==
    /\ req.op = "startup"
    /\ db.activity # << >>
    /\ Memberships(db, "Chess Club", "michael@mergington.edu") = 0
    /\ HasParticipant(db, "new@mergington.edu")

====
